---- MODULE Spec2Model ----
(***************************************************************************)
(* Model of HW3/api.py: the declarative field schemas, the Validator, the  *)
(* method handlers (online_score, clients_interests) and                   *)
(* MainHTTPHandler.do_POST.                                                *)
(*                                                                         *)
(* Two specifications:                                                     *)
(*   SpecV - the Validator as a pure function of (schema, data);           *)
(*   Spec  - the HTTP endpoint: a request arrives, do_POST answers it.     *)
(***************************************************************************)
EXTENDS Integers, Sequences, FiniteSets, TLC

VARIABLES
    vpc,        \* SpecV: "new" before Validator(obj, schema) is built, "validated" after
    vschema,    \* SpecV: name of the schema class handed to Validator
    vdata,      \* SpecV: the obj handed to Validator
    vresult,    \* SpecV: the Validator's errors / filled_fields
    pc,         \* Spec: "idle", "received" (request read off the socket), "done"
    path,       \* Spec: self.path, a sequence of path tokens
    headers,    \* Spec: self.headers, a mapping of header name to value
    rfile,      \* Spec: what json.loads makes of the body bytes
    store,      \* Spec: the store collaborator behind get_score / get_interests
    code,       \* Spec: the status passed to send_response
    r,          \* Spec: the JSON document written to wfile
    context,    \* Spec: the per-request context dict
    handled,    \* Spec: the handlers entered for the request, in call order
    storeCalls  \* Spec: the calls made to the store for the request, in order

vvars == <<vpc, vschema, vdata, vresult>>
svars == <<pc, path, headers, rfile, store, code, r, context, handled, storeCalls>>
vars == <<vpc, vschema, vdata, vresult, pc, path, headers, rfile, store, code, r,
          context, handled, storeCalls>>

----------------------------------------------------------------------------
(* Bounds of the model *)

\* most keys a data mapping handed to the Validator holds (SpecV)
MaxKeys == 4
\* most keys the arguments mapping of a request holds (Spec)
MaxArgKeys == 2
\* most entries of a client_ids list (Spec)
MaxIds == 2

----------------------------------------------------------------------------
(* Program constants *)

MEANING_OF_LIFE == 42
ADMIN_LOGIN == "admin"
OK == 200
BAD_REQUEST == 400
FORBIDDEN == 403
NOT_FOUND == 404
INVALID_REQUEST == 422
INTERNAL_ERROR == 500
ERRORS == (BAD_REQUEST :> "Bad Request") @@ (FORBIDDEN :> "Forbidden") @@
          (NOT_FOUND :> "Not Found") @@ (INVALID_REQUEST :> "Invalid Request") @@
          (INTERNAL_ERROR :> "Internal Server Error")

----------------------------------------------------------------------------
(* Python / JSON values.  Every value is a record tagged with its type, so *)
(* that presence, emptiness and type errors are what the code makes them.  *)

None == [t |-> "null"]
JStr(s) == [t |-> "str", s |-> s]
JNum(n) == [t |-> "num", n |-> n]
JArr(a) == [t |-> "arr", a |-> a]
JObj(o) == [t |-> "obj", o |-> o]

\* bool(value): None, "", 0, [] and {} are falsy, everything else is truthy
Truthy(v) ==
    CASE v.t = "null" -> FALSE
      [] v.t = "str"  -> v.s # ""
      [] v.t = "num"  -> v.n # 0
      [] v.t = "arr"  -> v.a # <<>>
      [] v.t = "obj"  -> DOMAIN v.o # {}

\* only a dict has .get / can be indexed by a string key
IsDict(v) == v.t = "obj"

\* obj.get(name) of a dict: the value under the key, None when the key is absent
Get(obj, name) == IF name \in DOMAIN obj.o THEN obj.o[name] ELSE None

----------------------------------------------------------------------------
(* Field constraint model and schemas *)

\* Field(field, value): one named constraint of a field
Field(field, value) == [field_type |-> field, value |-> value]

\* BaseField(required=..., nullable=...): the Field objects of field.__dict__,
\* in keyword order
BaseField2(required, nullable) ==
    <<Field("required", required), Field("nullable", nullable)>>

\* BaseField(required=...): a field that declares the required constraint only
BaseField1(required) == <<Field("required", required)>>

\* a class attribute: its name, whether it is a BaseField, and its constraints
Member(name, isField, constrains) ==
    [name |-> name, isField |-> isField, constrains |-> constrains]

ClientsInterestsRequest ==
    << Member("client_ids", TRUE, BaseField1(TRUE)),
       Member("date", TRUE, BaseField2(FALSE, TRUE)) >>

OnlineScoreRequest ==
    << Member("first_name", TRUE, BaseField2(FALSE, TRUE)),
       Member("last_name", TRUE, BaseField2(FALSE, TRUE)),
       Member("email", TRUE, BaseField2(FALSE, TRUE)),
       Member("phone", TRUE, BaseField2(FALSE, TRUE)),
       Member("birthday", TRUE, BaseField2(FALSE, TRUE)),
       Member("gender", TRUE, BaseField2(FALSE, TRUE)) >>

MethodRequest ==
    << Member("account", TRUE, BaseField2(FALSE, TRUE)),
       Member("login", TRUE, BaseField2(TRUE, TRUE)),
       Member("token", TRUE, BaseField2(TRUE, TRUE)),
       Member("arguments", TRUE, BaseField2(TRUE, TRUE)),
       Member("method", TRUE, BaseField2(TRUE, FALSE)),
       Member("is_admin", FALSE, <<>>) >>

SchemaNames == {"ClientsInterestsRequest", "OnlineScoreRequest", "MethodRequest"}

Schema(name) ==
    CASE name = "ClientsInterestsRequest" -> ClientsInterestsRequest
      [] name = "OnlineScoreRequest" -> OnlineScoreRequest
      [] name = "MethodRequest" -> MethodRequest

\* the declared BaseField names of a schema, in declaration order
RECURSIVE DeclaredFields(_)
DeclaredFields(schema) ==
    IF schema = <<>> THEN <<>>
    ELSE (IF Head(schema).isField THEN <<Head(schema).name>> ELSE <<>>)
         \o DeclaredFields(Tail(schema))

\* the constraints a schema declares for a field name
ConstrainsOf(schema, name) ==
    schema[CHOOSE i \in 1..Len(schema) : schema[i].name = name].constrains

----------------------------------------------------------------------------
(* Validator *)

\* the attribute names of the schema classes in ascending string order, the
\* order in which inspect.getmembers returns them
NameOrder ==
    << "account", "arguments", "birthday", "client_ids", "date", "email",
       "first_name", "gender", "is_admin", "last_name", "login", "method",
       "phone", "token" >>

Rank(name) == CHOOSE i \in 1..Len(NameOrder) : NameOrder[i] = name

Range(s) == {s[i] : i \in 1..Len(s)}

RECURSIVE SortByName(_)
SortByName(S) ==
    IF S = {} THEN <<>>
    ELSE LET m == CHOOSE x \in S : \A y \in S : Rank(x.name) <= Rank(y.name)
         IN <<m>> \o SortByName(S \ {m})

\* mutant of GetMembers: the members in declaration order, not sorted by name
DeclaredMembers(schema) == schema

\* inspect.getmembers(schema): all members, sorted by name
GetMembers(schema) == SortByName(Range(schema))

\* checked_fields: the members that are BaseField instances, in getmembers order
CheckedFields(schema) == SelectSeq(GetMembers(schema), LAMBDA m : m.isField)

ShouldBeFilled(name) == "Field " \o name \o " should be filled"
ShouldBeExists(name) == "Field " \o name \o " should be exists"

\* one pass of the loop body of __validate for a single constraint
ApplyConstrain(acc, constrain, name, value) ==
    IF constrain.field_type = "nullable" THEN
        IF ~constrain.value THEN
            IF ~Truthy(value)
            THEN [acc EXCEPT !.errors = Append(@, ShouldBeFilled(name))]
            ELSE acc
        ELSE [acc EXCEPT !.filled_fields = Append(@, name)]
    ELSE IF constrain.field_type = "required" THEN
        IF constrain.value /\ ~Truthy(value)
        THEN [acc EXCEPT !.errors = Append(@, ShouldBeExists(name))]
        ELSE acc
    ELSE acc

\* Validator.__validate(field, name, obj): value = obj.get(name), then every
\* constraint of the field in turn
RECURSIVE ValidateField(_, _, _, _)
ValidateField(acc, constrains, name, obj) ==
    IF constrains = <<>> THEN acc
    ELSE ValidateField(ApplyConstrain(acc, Head(constrains), name, Get(obj, name)),
                       Tail(constrains), name, obj)

RECURSIVE ValidateAll(_, _, _)
ValidateAll(acc, fields, obj) ==
    IF fields = <<>> THEN acc
    ELSE ValidateAll(ValidateField(acc, Head(fields).constrains, Head(fields).name, obj),
                     Tail(fields), obj)

\* Validator(obj, schema): the constructor runs validate().  obj.get raises
\* AttributeError when obj is not a dict (and the schema has a field to check).
Validator(obj, schema) ==
    IF ~IsDict(obj) /\ CheckedFields(schema) # <<>>
    THEN [raised |-> TRUE, errors |-> <<>>, filled_fields |-> <<>>]
    ELSE ValidateAll([raised |-> FALSE, errors |-> <<>>, filled_fields |-> <<>>],
                     CheckedFields(schema), obj)

\* Validator.is_valid
IsValid(v) == v.errors = <<>>

----------------------------------------------------------------------------
(* SpecV: the Validator applied to every bounded (schema, data) pair *)

\* the values a key of the data may hold: null, "", 0, [], {} and a filled string
DataValues == {None, JStr(""), JNum(0), JArr(<<>>), JObj(<<>>), JStr("a")}

\* every mapping with at most n of the given keys
Mappings(keys, values, n) ==
    UNION {[K -> values] : K \in {K \in SUBSET keys : Cardinality(K) <= n}}

NoResult == [raised |-> FALSE, errors |-> <<>>, filled_fields |-> <<>>]

----------------------------------------------------------------------------
(* The store collaborator (HW3/scoring.py): opaque lookups *)

ClientIds == {"1", "2"}

\* the stores a run may be started with: a score and the interests of each client
Stores ==
    { [score |-> 3, interests |-> ("1" :> <<"books">>) @@ ("2" :> <<"tv">>)],
      [score |-> 5, interests |-> ("1" :> <<"tv">>) @@ ("2" :> <<"tv">>)] }

\* get_score(store, phone, email, birthday, gender, first_name, last_name)
GetScore(st, phone, email, birthday, gender, first_name, last_name) == JNum(st.score)

\* get_interests(store, cid)
GetInterests(st, cid) == JArr(st.interests[cid])

ScoreCall(phone, email, birthday, gender, first_name, last_name) ==
    [fn |-> "get_score",
     args |-> <<phone, email, birthday, gender, first_name, last_name>>]

InterestsCall(cid) == [fn |-> "get_interests", args |-> <<cid>>]

----------------------------------------------------------------------------
(* Handlers.  Each returns what the Python call returns, or raised = TRUE   *)
(* when it ends in an exception; handled and storeCalls record the handlers *)
(* entered and the store calls made on the way.                             *)

Raised(ctx, hs, calls) ==
    [raised |-> TRUE, response |-> JObj(<<>>), code |-> OK, context |-> ctx,
     handled |-> hs, storeCalls |-> calls]

Returned(response, c, ctx, hs, calls) ==
    [raised |-> FALSE, response |-> response, code |-> c, context |-> ctx,
     handled |-> hs, storeCalls |-> calls]

\* ctx.update(d)
Update(ctx, d) == d @@ ctx

\* the calls get_interests(store, idx) for idx in ids, in order
RECURSIVE InterestsCalls(_)
InterestsCalls(ids) ==
    IF ids = <<>> THEN <<>> ELSE <<InterestsCall(Head(ids))>> \o InterestsCalls(Tail(ids))

\* {idx: get_interests(store=store, cid=idx) for idx in ids}
InterestsOf(st, ids) == JObj([idx \in Range(ids) |-> GetInterests(st, idx)])

\* mutant of InterestsReply: nclients counts the distinct ids
InterestsReplyDistinct(ids, ctx, st) ==
    IF ids.t # "arr" THEN Raised(ctx, <<"clients_interests">>, <<>>)
    ELSE Returned(InterestsOf(st, ids.a), OK,
                  Update(ctx, "nclients" :> JNum(Cardinality(Range(ids.a)))),
                  <<"clients_interests">>, InterestsCalls(ids.a))

\* the valid branch of clients_interests: one lookup per id, nclients = len(ids);
\* iterating ids raises when it is no list
InterestsReply(ids, ctx, st) ==
    IF ids.t # "arr" THEN Raised(ctx, <<"clients_interests">>, <<>>)
    ELSE Returned(InterestsOf(st, ids.a), OK,
                  Update(ctx, "nclients" :> JNum(Len(ids.a))),
                  <<"clients_interests">>, InterestsCalls(ids.a))

\* clients_interests after its Validator has been built
InterestsValidated(arguments, validator, ctx, st) ==
    IF validator.raised THEN Raised(ctx, <<"clients_interests">>, <<>>)
    ELSE IF IsValid(validator) THEN InterestsReply(arguments.o["client_ids"], ctx, st)
    ELSE Returned(JObj("error" :> JStr(validator.errors[1])), INVALID_REQUEST, ctx,
                  <<"clients_interests">>, <<>>)

\* clients_interests(request, ctx, store)
ClientsInterests(request, ctx, st) ==
    IF ~IsDict(request.o["body"]) \/ "arguments" \notin DOMAIN request.o["body"].o
    THEN Raised(ctx, <<"clients_interests">>, <<>>)
    ELSE InterestsValidated(request.o["body"].o["arguments"],
                            Validator(request.o["body"].o["arguments"],
                                      ClientsInterestsRequest),
                            ctx, st)

\* enough_information of score_handler
EnoughInformation(arguments) ==
    \/ Truthy(Get(arguments, "email")) /\ Truthy(Get(arguments, "phone"))
    \/ Truthy(Get(arguments, "first_name")) /\ Truthy(Get(arguments, "last_name"))
    \/ Truthy(Get(arguments, "gender")) /\ Truthy(Get(arguments, "birthday"))

\* mutant of ScoreReply: no admin shortcut, the store is asked for every login
ScoreReplyNoAdmin(request_body, arguments, ctx, st) ==
    Returned(JObj("score" :> GetScore(st, Get(arguments, "phone"),
                      Get(arguments, "email"), Get(arguments, "birthday"),
                      Get(arguments, "gender"), Get(arguments, "first_name"),
                      Get(arguments, "last_name"))),
             OK, ctx, <<"score_handler">>,
             <<ScoreCall(Get(arguments, "phone"), Get(arguments, "email"),
                         Get(arguments, "birthday"), Get(arguments, "gender"),
                         Get(arguments, "first_name"), Get(arguments, "last_name"))>>)

\* the valid branch of score_handler: the sentinel for the admin login, else one
\* get_score call with the six argument values
ScoreReply(request_body, arguments, ctx, st) ==
    IF "login" \notin DOMAIN request_body.o THEN Raised(ctx, <<"score_handler">>, <<>>)
    ELSE IF request_body.o["login"] = JStr(ADMIN_LOGIN)
    THEN Returned(JObj("score" :> JNum(MEANING_OF_LIFE)), OK, ctx, <<"score_handler">>, <<>>)
    ELSE Returned(JObj("score" :> GetScore(st, Get(arguments, "phone"),
                           Get(arguments, "email"), Get(arguments, "birthday"),
                           Get(arguments, "gender"), Get(arguments, "first_name"),
                           Get(arguments, "last_name"))),
                  OK, ctx, <<"score_handler">>,
                  <<ScoreCall(Get(arguments, "phone"), Get(arguments, "email"),
                              Get(arguments, "birthday"), Get(arguments, "gender"),
                              Get(arguments, "first_name"), Get(arguments, "last_name"))>>)

\* score_handler after its Validator has been built: filled_fields go to ctx['has']
ScoreValidated(request_body, arguments, validator, ctx, st) ==
    IF IsValid(validator)
    THEN ScoreReply(request_body, arguments,
                    Update(ctx, "has" :> JArr(validator.filled_fields)), st)
    ELSE Returned(JObj("error" :> JStr(validator.errors[1])), INVALID_REQUEST,
                  Update(ctx, "has" :> JArr(validator.filled_fields)),
                  <<"score_handler">>, <<>>)

\* score_handler once arguments is known to be a dict
ScoreArgumentsRead(request, arguments, ctx, st) ==
    IF EnoughInformation(arguments)
    THEN ScoreValidated(request.o["body"], arguments,
                        Validator(request, OnlineScoreRequest), ctx, st)
    ELSE Returned(JObj("error" :> JStr("You should to send necessary parameters")),
                  INVALID_REQUEST, ctx, <<"score_handler">>, <<>>)

\* score_handler(request, ctx, store)
ScoreHandler(request, ctx, st) ==
    IF ~IsDict(request.o["body"]) \/ "arguments" \notin DOMAIN request.o["body"].o
    THEN Raised(ctx, <<"score_handler">>, <<>>)
    ELSE IF ~IsDict(request.o["body"].o["arguments"])      \* arguments.get raises
    THEN Raised(ctx, <<"score_handler">>, <<>>)
    ELSE ScoreArgumentsRead(request, request.o["body"].o["arguments"], ctx, st)

\* hashlib.sha512(s).hexdigest(), kept symbolic: equal digests for equal inputs only
Sha512Hex(s) == "sha512(" \o s \o ")"

SALT == "Otus"
ADMIN_SALT == "42"

\* datetime.datetime.now().strftime("%Y%m%d%H") at the time of the request
CurrentHour == "2026110401"

\* the string held under a key of the request, "" when there is none
Text(body, key) ==
    IF key \in DOMAIN body.o /\ body.o[key].t = "str" THEN body.o[key].s ELSE ""

\* check_auth(request); no handler calls it
CheckAuth(body) ==
    IF Get(body, "login") = JStr(ADMIN_LOGIN)
    THEN Get(body, "token") = JStr(Sha512Hex(CurrentHour \o ADMIN_SALT))
    ELSE Get(body, "token") =
             JStr(Sha512Hex(Text(body, "account") \o Text(body, "login") \o SALT))

\* the handler's result with method_handler put in front of the handlers entered
Via(res) == [res EXCEPT !.handled = <<"method_handler">> \o @]

\* mutant of MethodHandler: check_auth is enforced before the dispatch
MethodHandlerAuth(request, ctx, st) ==
    IF ~IsDict(request.o["body"]) \/ "method" \notin DOMAIN request.o["body"].o
    THEN Raised(ctx, <<"method_handler">>, <<>>)
    ELSE IF ~CheckAuth(request.o["body"])
    THEN Returned(JObj("error" :> JStr("Forbidden")), FORBIDDEN, ctx,
                  <<"method_handler">>, <<>>)
    ELSE IF request.o["body"].o["method"] = JStr("clients_interests")
    THEN Via(ClientsInterests(request, ctx, st))
    ELSE IF request.o["body"].o["method"] = JStr("online_score")
    THEN Via(ScoreHandler(request, ctx, st))
    ELSE Raised(ctx, <<"method_handler">>, <<>>)

\* method_handler(request, ctx, store): look the method up in middleware and call it
MethodHandler(request, ctx, st) ==
    IF ~IsDict(request.o["body"]) \/ "method" \notin DOMAIN request.o["body"].o
    THEN Raised(ctx, <<"method_handler">>, <<>>)
    ELSE IF request.o["body"].o["method"] = JStr("clients_interests")
    THEN Via(ClientsInterests(request, ctx, st))
    ELSE IF request.o["body"].o["method"] = JStr("online_score")
    THEN Via(ScoreHandler(request, ctx, st))
    ELSE Raised(ctx, <<"method_handler">>, <<>>)        \* KeyError

----------------------------------------------------------------------------
(* MainHTTPHandler *)

\* the router of MainHTTPHandler: the registered paths
Router == {<<"method">>}

\* self.path.strip("/"): drop the leading and the trailing "/" tokens
RECURSIVE LStrip(_)
LStrip(p) == IF p # <<>> /\ Head(p) = "/" THEN LStrip(Tail(p)) ELSE p

RECURSIVE RStrip(_)
RStrip(p) ==
    IF p # <<>> /\ p[Len(p)] = "/" THEN RStrip(SubSeq(p, 1, Len(p) - 1)) ELSE p

Strip(p) == RStrip(LStrip(p))

\* the Content-Length value that gives the body's length in decimal digits
BodyLength == "body-length"

\* the body text json.loads rejects
Malformed == [t |-> "malformed"]

\* get_request_id(headers)
GetRequestId(hdrs) ==
    IF "HTTP_X_REQUEST_ID" \in DOMAIN hdrs THEN hdrs["HTTP_X_REQUEST_ID"] ELSE "uuid4"

\* int(self.headers['Content-Length']) or json.loads(data_string) raises
ReadFails(hdrs, body) ==
    \/ "Content-Length" \notin DOMAIN hdrs
    \/ hdrs["Content-Length"] # BodyLength
    \/ body = Malformed

\* the try block after request_validator has been built, and its except clause
EnvelopeValidated(body, request_validator) ==
    IF request_validator.raised
    THEN [request |-> body, response |-> JObj(<<>>), code |-> BAD_REQUEST]
    ELSE IF ~IsValid(request_validator)
    THEN [request |-> None, response |-> JArr(request_validator.errors),
          code |-> INVALID_REQUEST]
    ELSE [request |-> body, response |-> JObj(<<>>), code |-> OK]

\* the try/except block of do_POST: request, response and code after it
ParseStage(hdrs, body) ==
    IF ReadFails(hdrs, body)
    THEN [request |-> None, response |-> JObj(<<>>), code |-> BAD_REQUEST]
    ELSE EnvelopeValidated(body, Validator(body, MethodRequest))

\* {"body": request, "headers": self.headers}
HandlerRequest(request, hdrs) ==
    JObj(("body" :> request) @@ ("headers" :> JObj([h \in DOMAIN hdrs |-> JStr(hdrs[h])])))

\* the try/except around the handler call: an exception leaves response as it
\* was and makes the code INTERNAL_ERROR
Handled(res, parsed) ==
    [response |-> IF res.raised THEN parsed.response ELSE res.response,
     code |-> IF res.raised THEN INTERNAL_ERROR ELSE res.code,
     context |-> res.context, handled |-> res.handled, storeCalls |-> res.storeCalls]

\* mutant of RouteStage: the handler is called whatever the path
RouteStageAnyPath(p, hdrs, parsed, ctx, st) ==
    IF Truthy(parsed.request)
    THEN Handled(MethodHandler(HandlerRequest(parsed.request, hdrs), ctx, st), parsed)
    ELSE [response |-> parsed.response, code |-> parsed.code, context |-> ctx,
          handled |-> <<>>, storeCalls |-> <<>>]

\* the "if request:" block of do_POST: route lookup and dispatch
RouteStage(p, hdrs, parsed, ctx, st) ==
    IF Truthy(parsed.request) THEN
        IF Strip(p) \in Router
        THEN Handled(MethodHandler(HandlerRequest(parsed.request, hdrs), ctx, st), parsed)
        ELSE [response |-> parsed.response, code |-> NOT_FOUND, context |-> ctx,
              handled |-> <<>>, storeCalls |-> <<>>]
    ELSE [response |-> parsed.response, code |-> parsed.code, context |-> ctx,
          handled |-> <<>>, storeCalls |-> <<>>]

\* the document written to wfile
Reply(response, c) ==
    IF c \notin DOMAIN ERRORS
    THEN ("response" :> response) @@ ("code" :> JNum(c))
    ELSE ("error" :> (IF Truthy(response) THEN response ELSE JStr(ERRORS[c])))
         @@ ("code" :> JNum(c))

\* the tail of do_POST: build r, context.update(r), write r
Written(routed, reply) ==
    [code |-> routed.code, r |-> reply, context |-> Update(routed.context, reply),
     handled |-> routed.handled, storeCalls |-> routed.storeCalls]

Respond(routed) == Written(routed, Reply(routed.response, routed.code))

\* do_POST as a function of the request and the store
Answer(p, hdrs, body, st) ==
    Respond(RouteStage(p, hdrs, ParseStage(hdrs, body),
                       "request_id" :> JStr(GetRequestId(hdrs)), st))

-----
(* The requests the model sends *)

Paths == { <<"/", "method", "/">>, <<"/", "other", "/">> }

ScoreKeys == {"first_name", "last_name", "email", "phone", "birthday", "gender"}

\* arguments of online_score: up to MaxArgKeys of the six keys, each empty or
\* filled with a value that names its key
ScoreArguments ==
    UNION { { JObj([k \in K |-> IF k \in T THEN JStr("<" \o k \o ">") ELSE JStr("")])
              : T \in SUBSET K }
            : K \in {K \in SUBSET ScoreKeys : Cardinality(K) <= MaxArgKeys} }

\* the lists of at most n client ids
IdLists(n) == UNION {[1..k -> ClientIds] : k \in 0..n}

\* arguments of clients_interests: client_ids absent, a list, or a number;
\* date absent or filled
InterestsArguments ==
    { JObj(m) : m \in Mappings({"date"}, {JStr("01.01.2020")}, 1) }
    \cup { JObj(("client_ids" :> c) @@ m)
           : c \in {JArr(l) : l \in IdLists(MaxIds)} \cup {JNum(5)},
             m \in Mappings({"date"}, {JStr("01.01.2020")}, 1) }

ArgumentsValues == {None, JStr("x")} \cup ScoreArguments \cup InterestsArguments

\* the token check_auth would accept for account "acc" and login "user", and one
\* it would accept for nobody
GoodToken == JStr(Sha512Hex("acc" \o "user" \o SALT))
BadToken == JStr("bad-token")

Optional(key, values) == {<<>>} \cup {key :> v : v \in values}

\* arguments the envelope-shaped requests carry: absent, null, {}, a string,
\* one filled online_score mapping and one filled clients_interests mapping
SampleArguments ==
    {None, JObj(<<>>), JStr("x"),
     JObj(("email" :> JStr("<email>")) @@ ("phone" :> JStr("<phone>"))),
     JObj("client_ids" :> JArr(<<"1", "2">>))}

\* envelopes with every shape of account, login, token and method
EnvelopeShapes ==
    { JObj(a @@ l @@ t @@ g @@ m)
      : a \in Optional("account", {JStr("acc")}),
        l \in Optional("login", {JStr(""), JStr("admin"), JStr("user")}),
        t \in Optional("token", {JStr(""), GoodToken, BadToken}),
        g \in Optional("arguments", SampleArguments),
        m \in Optional("method", {JStr(""), JStr("online_score"),
                                    JStr("clients_interests"), JStr("bogus")}) }

\* envelopes with filled login, token and method and every shape of arguments
ArgumentShapes ==
    { JObj(a @@ l @@ t @@ g @@ m)
      : a \in Optional("account", {JStr("acc")}),
        l \in {"login" :> JStr("admin"), "login" :> JStr("user")},
        t \in {"token" :> GoodToken, "token" :> BadToken},
        g \in {"arguments" :> v : v \in ArgumentsValues},
        m \in {"method" :> JStr("online_score"), "method" :> JStr("clients_interests")} }

\* JSON objects sent as the envelope
Envelopes == EnvelopeShapes \cup ArgumentShapes

\* JSON documents that are no object
NonObjects == {None, JArr(<<>>), JArr(<<"1">>), JStr(""), JStr("abc"), JNum(0), JNum(5)}

Bodies == {Malformed} \cup NonObjects \cup Envelopes

\* an envelope every stage accepts, sent with the unusable Content-Length headers
SampleEnvelope ==
    JObj(("login" :> JStr("user")) @@ ("token" :> GoodToken) @@
         ("method" :> JStr("online_score")) @@
         ("arguments" :> JObj(("email" :> JStr("<email>")) @@ ("phone" :> JStr("<phone>")))))

Wire ==
    { [headers |-> "Content-Length" :> BodyLength, rfile |-> b] : b \in Bodies }
    \cup { [headers |-> h, rfile |-> b]
           : h \in {<<>>, "Content-Length" :> "xx"}, b \in {Malformed, SampleEnvelope} }

----------------------------------------------------------------------------
(* Spec: the endpoint *)

NoReply == <<>>

\* MainHTTPHandler.store as the class declares it
NoStore == [score |-> 0, interests |-> <<>>]

ServerIdle ==
    /\ pc = "idle"
    /\ path = <<>>
    /\ headers = <<>>
    /\ rfile = None
    /\ code = 0
    /\ r = NoReply
    /\ context = <<>>
    /\ handled = <<>>
    /\ storeCalls = <<>>

ValidatorOff ==
    /\ vpc = "off"
    /\ vschema = "none"
    /\ vdata = None
    /\ vresult = NoResult

Init ==
    /\ ServerIdle
    /\ store \in Stores
    /\ ValidatorOff

\* the HTTP server reads a POST request off a connection
Receive ==
    /\ pc = "idle"
    /\ \E p \in Paths, w \in Wire :
        /\ path' = p
        /\ headers' = w.headers
        /\ rfile' = w.rfile
    /\ pc' = "received"
    /\ UNCHANGED <<store, code, r, context, handled, storeCalls>>
    /\ UNCHANGED vvars

\* MainHTTPHandler.do_POST answers the request
DoPOST ==
    /\ pc = "received"
    /\ \E a \in {Answer(path, headers, rfile, store)} :
          /\ code' = a.code
          /\ r' = a.r
          /\ context' = a.context
          /\ handled' = a.handled
          /\ storeCalls' = a.storeCalls
    /\ pc' = "done"
    /\ UNCHANGED <<path, headers, rfile, store>>
    /\ UNCHANGED vvars

\* do_POST has returned; the handler object and its context are dropped
Finish ==
    /\ pc = "done"
    /\ pc' = "idle"
    /\ path' = <<>>
    /\ headers' = <<>>
    /\ rfile' = None
    /\ code' = 0
    /\ r' = NoReply
    /\ context' = <<>>
    /\ handled' = <<>>
    /\ storeCalls' = <<>>
    /\ UNCHANGED store
    /\ UNCHANGED vvars

Next == Receive \/ DoPOST \/ Finish

Spec == Init /\ [][Next]_vars

----------------------------------------------------------------------------
(* SpecV: the Validator on its own *)

InitV ==
    /\ vpc = "new"
    /\ vschema \in SchemaNames
    /\ vdata \in {JObj(m) : m \in Mappings(Range(DeclaredFields(Schema(vschema))),
                                             DataValues, MaxKeys)}
    /\ vresult = NoResult
    /\ ServerIdle
    /\ store = NoStore

\* Validator(obj, schema) is constructed, which runs validate()
Validate ==
    /\ vpc = "new"
    /\ vresult' = Validator(vdata, Schema(vschema))
    /\ vpc' = "validated"
    /\ UNCHANGED <<vschema, vdata>>
    /\ UNCHANGED svars

NextV == Validate

SpecV == InitV /\ [][NextV]_vars

----------------------------------------------------------------------------
(* Properties of the Validator, checked under SpecV *)

\* the declared fields of the schema under validation
VFields == Range(DeclaredFields(Schema(vschema)))

\* whether the schema declares constraint kind = value for a field
Declares(schema, name, kind, value) ==
    \E i \in 1..Len(ConstrainsOf(schema, name)) :
        ConstrainsOf(schema, name)[i] = Field(kind, value)

\* the field an error message is about
ErrorField(e) ==
    CHOOSE name \in VFields : e \in {ShouldBeFilled(name), ShouldBeExists(name)}

\* position of a field in the schema's declaration
DeclIndex(name) ==
    CHOOSE i \in 1..Len(DeclaredFields(Schema(vschema))) :
        DeclaredFields(Schema(vschema))[i] = name

\* C1: validate reports 'Field {name} should be exists' for a field exactly when
\* the field declares required=true and name is no key of data; an absent
\* required field also makes valid false.
C1_ShouldExistIffRequiredKeyAbsent ==
    vpc = "validated" =>
        \A name \in VFields :
            /\ (ShouldBeExists(name) \in Range(vresult.errors))
                   <=> (Declares(Schema(vschema), name, "required", TRUE)
                        /\ name \notin DOMAIN vdata.o)
            /\ (Declares(Schema(vschema), name, "required", TRUE)
                /\ name \notin DOMAIN vdata.o) => ~IsValid(vresult)

\* C2: a field declaring nullable=false that is present but falsy is reported
\* 'Field {name} should be filled'; present and truthy, its name is in
\* filled_fields and no such error is reported.
C2_NonNullableFilledOrReported ==
    vpc = "validated" =>
        \A name \in VFields :
            (Declares(Schema(vschema), name, "nullable", FALSE)
             /\ name \in DOMAIN vdata.o) =>
                IF Truthy(vdata.o[name])
                THEN /\ name \in Range(vresult.filled_fields)
                     /\ ShouldBeFilled(name) \notin Range(vresult.errors)
                ELSE ShouldBeFilled(name) \in Range(vresult.errors)

----------------------------------------------------------------------------
(* Properties of the endpoint, checked under Spec *)

\* the request body was read and parsed as a JSON object
BodyIsObject == ~ReadFails(headers, rfile) /\ IsDict(rfile)

\* envelope.arguments of the request, None when there is none
Arguments == Get(rfile, "arguments")

\* do_POST has answered a request that was dispatched to the online_score handler
ScoreHandlerRan == pc = "done" /\ handled = <<"method_handler", "score_handler">>

\* do_POST has answered a request that was dispatched to the clients_interests handler
InterestsHandlerRan == pc = "done" /\ handled = <<"method_handler", "clients_interests">>

\* the reply {"error": <message>, "code": code}
ErrorReply(message, c) == ("error" :> message) @@ ("code" :> JNum(c))

\* the reply {"response": <response>, "code": 200}
OkReply(response) == ("response" :> response) @@ ("code" :> JNum(200))

\* C3: an online_score request to the registered route, in an envelope with a
\* filled login and token, whose arguments mapping holds no filled pair
\* (arguments = {} included) is answered 422 with the handler's
\* insufficient-parameters error, context.has is not set and the store is not called.
C3_InsufficientParameters ==
    ( /\ pc = "done"
      /\ BodyIsObject
      /\ Strip(path) \in Router
      /\ Truthy(Get(rfile, "login"))
      /\ Truthy(Get(rfile, "token"))
      /\ Get(rfile, "method") = JStr("online_score")
      /\ "arguments" \in DOMAIN rfile.o
      /\ IsDict(Arguments)
      /\ ~EnoughInformation(Arguments) )
    => /\ code = 422
       /\ r = ErrorReply(JObj("error" :> JStr("You should to send necessary parameters")), 422)
       /\ "has" \notin DOMAIN context
       /\ storeCalls = <<>>

\* C4: every request dispatched to online_score whose arguments hold a filled
\* pair is answered 200 with a score: 42 and no store call for the admin login,
\* otherwise the value of the one call
\* get_score(phone, email, birthday, gender, first_name, last_name).
C4_ScoreReply ==
    (ScoreHandlerRan /\ IsDict(Arguments) /\ EnoughInformation(Arguments)) =>
        /\ code = 200
        /\ IF Get(rfile, "login") = JStr("admin")
           THEN /\ r = OkReply(JObj("score" :> JNum(42)))
                /\ storeCalls = <<>>
           ELSE /\ r = OkReply(JObj("score" :> JNum(store.score)))
                /\ storeCalls =
                     << [fn |-> "get_score",
                         args |-> << Get(Arguments, "phone"), Get(Arguments, "email"),
                                     Get(Arguments, "birthday"), Get(Arguments, "gender"),
                                     Get(Arguments, "first_name"),
                                     Get(Arguments, "last_name") >>] >>

\* C4 witness: a non-admin online_score request with a filled pair was answered
\* from the store
C4_Witness ==
    /\ ScoreHandlerRan
    /\ IsDict(Arguments) /\ EnoughInformation(Arguments)
    /\ Get(rfile, "login") = JStr("user")
    /\ Len(storeCalls) = 1
    /\ code = 200

\* client_ids of the request's arguments
ClientIdsOf == Get(Arguments, "client_ids")

EnvelopeAccepted == BodyIsObject /\ IsValid(Validator(rfile, MethodRequest))

\* C6 as stated: every POST to an unregistered path is answered 404 with the
\* generic 'Not Found' message, for every request body, and no handler is
\* dispatched.
C6_UnregisteredAlways404 ==
    (pc = "done" /\ Strip(path) \notin Router) =>
        /\ code = 404
        /\ r = ErrorReply(JStr("Not Found"), 404)
        /\ handled = <<>>

\* C6 amended: for a POST to an unregistered path no handler is dispatched and
\* the status is 400, 422 or 404; it is 404 with the generic 'Not Found'
\* message whenever the body was parsed as an object that passes the envelope
\* validation.
C6_UnregisteredAfterParse ==
    (pc = "done" /\ Strip(path) \notin Router) =>
        /\ handled = <<>>
        /\ storeCalls = <<>>
        /\ code \in {400, 404, 422}
        /\ EnvelopeAccepted =>
               /\ code = 404
               /\ r = ErrorReply(JStr("Not Found"), 404)

\* C6 witness: an accepted envelope sent to an unregistered path was answered 404
C6_Witness ==
    /\ pc = "done"
    /\ Strip(path) \notin Router
    /\ EnvelopeAccepted
    /\ Get(rfile, "method") = JStr("online_score")
    /\ code = 404

\* C7: a request whose body cannot be read or parsed as a JSON object is
\* answered 400 and reaches neither the route lookup nor a handler.
C7_UnparsableIs400 ==
    (pc = "done" /\ ~BodyIsObject) =>
        /\ code = 400
        /\ handled = <<>>

\* C9: after an online_score request with a filled pair, context.has lists
\* exactly the argument fields that are present with a truthy value.
C9_HasListsFilledArguments ==
    (ScoreHandlerRan /\ IsDict(Arguments) /\ EnoughInformation(Arguments)) =>
        /\ "has" \in DOMAIN context
        /\ context["has"].t = "arr"
        /\ Range(context["has"].a) = {k \in ScoreKeys : Truthy(Get(Arguments, k))}

\* the request with its token replaced
WithToken(body, t) == JObj(("token" :> t) @@ body.o)

\* C10: the answer does not depend on the token: the same request with any
\* other non-empty token gets the same status and the same reply, handlers and
\* store calls, and status 403 is never produced.
C10_TokenIndependent ==
    pc = "done" =>
        /\ code # 403
        /\ (BodyIsObject /\ Truthy(Get(rfile, "token"))) =>
               \A t \in {GoodToken, BadToken} :
                   /\ Answer(path, headers, WithToken(rfile, t), store).code = code
                   /\ Answer(path, headers, WithToken(rfile, t), store).r = r
                   /\ Answer(path, headers, WithToken(rfile, t), store).handled = handled

\* C10 witness: a request carrying a token check_auth would reject was
\* dispatched and answered 200
C10_Witness ==
    /\ pc = "done"
    /\ BodyIsObject
    /\ Get(rfile, "token") = BadToken
    /\ handled # <<>>
    /\ code = 200

====
